---- MODULE Spec2Model ----
(***************************************************************************)
(* A model of src/main.rs: the launch-time authentication shim.            *)
(*                                                                         *)
(*   validate_args, find_authlib_injector, yggdrasil_login,                *)
(*   modify_minecraft_params and main.                                     *)
(*                                                                         *)
(* Text is modelled by TLA+ strings: contains / starts_with / ends_with /  *)
(* replace / format! are computed on the characters with Len, SubSeq and   *)
(* \o, as the Rust standard library computes them.                         *)
(***************************************************************************)
EXTENDS Integers, Sequences, FiniteSets, TLC

VARIABLES
    pc,          \* position of the program (see the actions)
    args,        \* env::args(): the argument vector
    found,       \* Option<PathBuf> returned by find_authlib_injector
    dirArg,      \* find_authlib_injector's argument: Option<&Path>
    fsys,        \* the file system the scan saw: current_exe, read_dir
    username,    \* yggdrasil_login's parameters
    password,
    api_url,
    requests,    \* every HTTP request sent so far, in order
    responses,   \* what the network answered to each request, in order
    prefetched_data, \* Option<String>: the base64 text of the GET body
    login,       \* Result<LoginResult> of yggdrasil_login, or NoValue while running
    minecraft_params,  \* the parameter lines (Vec<String>)
    input_params,      \* the lines as they were when modify_minecraft_params was called
    access_token,      \* modify_minecraft_params' parameters
    uuid,
    playername,
    index,       \* the for loop's index (0-based, as in the code)
    rewrite,     \* Result<()> of modify_minecraft_params, or NoValue while running
    stdin_read,  \* the lines taken from standard input so far, as they arrived
    child,       \* the child process: spawned?, its arguments, its standard input
    events,      \* the calls main has completed, in order
    result       \* how main ended, or NoValue while running

vars == <<pc, args, found, dirArg, fsys, username, password, api_url, requests,
          responses, prefetched_data, login, minecraft_params, input_params,
          access_token, uuid, playername, index, rewrite, stdin_read, child,
          events, result>>

locateVars == <<found, dirArg, fsys>>
loginArgs == <<username, password, api_url>>
netVars == <<requests, responses>>
rewriteArgs == <<input_params, access_token, uuid, playername>>
mainVars == <<args, stdin_read, child, events, result>>

(***************************************************************************)
(* Bounds of the model.                                                    *)
(***************************************************************************)
MaxArgs == 6     \* longest argument vector
MaxDir == 2      \* most entries in a scanned directory
MaxLen == 3      \* longest parameter sequence given to the rewrite alone
MaxStdin == 3    \* most lines main reads from standard input

(***************************************************************************)
(* Option and Result values.                                               *)
(***************************************************************************)
NoValue == [tag |-> "NoValue"]
None == [tag |-> "None"]
Some(v) == [tag |-> "Some", value |-> v]
Ok(v) == [tag |-> "Ok", value |-> v]
Err(e) == [tag |-> "Err", error |-> e]
Unit == "()"

(***************************************************************************)
(* str operations.                                                         *)
(***************************************************************************)
\* str::contains(pattern)
Contains(s, m) ==
    \E i \in 1..(Len(s) - Len(m) + 1) : SubSeq(s, i, i + Len(m) - 1) = m

\* str::starts_with(prefix)
StartsWith(s, p) == Len(p) <= Len(s) /\ SubSeq(s, 1, Len(p)) = p

\* str::ends_with(suffix)
EndsWith(s, p) == Len(p) <= Len(s) /\ SubSeq(s, Len(s) - Len(p) + 1, Len(s)) = p

\* str::replace(from, to): every non-overlapping match, left to right
RECURSIVE Replace(_, _, _)
Replace(s, from, to) ==
    IF Len(s) < Len(from) \/ Len(from) = 0 THEN s
    ELSE IF SubSeq(s, 1, Len(from)) = from
         THEN to \o Replace(SubSeq(s, Len(from) + 1, Len(s)), from, to)
         ELSE SubSeq(s, 1, 1) \o Replace(SubSeq(s, 2, Len(s)), from, to)

\* char::is_whitespace on the characters the model's input lines use
IsWhitespace(c) == c \in {" ", "\t"}

\* str::trim(): leading and trailing whitespace removed
RECURSIVE TrimStart(_)
TrimStart(s) ==
    IF Len(s) > 0 /\ IsWhitespace(SubSeq(s, 1, 1))
    THEN TrimStart(SubSeq(s, 2, Len(s))) ELSE s

RECURSIVE TrimEnd(_)
TrimEnd(s) ==
    IF Len(s) > 0 /\ IsWhitespace(SubSeq(s, Len(s), Len(s)))
    THEN TrimEnd(SubSeq(s, 1, Len(s) - 1)) ELSE s

Trim(s) == TrimEnd(TrimStart(s))

(***************************************************************************)
(* modify_minecraft_params                                                 *)
(***************************************************************************)
\* the five substring tests of the match arms, in the order of the arms
MarkerUsername == "param --username"
MarkerUuid == "param --uuid"
MarkerAccessToken == "param --accessToken"
MarkerUserName == "userName "
MarkerSessionId == "sessionId "

\* the five format! strings
FormatParam(v) == "param " \o v
FormatUserName(v) == "userName " \o v
FormatSessionId(v) == "sessionId token:" \o v

\* mutation of MatchArm: the "userName " test comes before the marker tests
MatchArmUserNameFirst(line) ==
    IF Contains(line, MarkerUserName) THEN "userName"
    ELSE IF Contains(line, MarkerUsername) THEN "username"
    ELSE IF Contains(line, MarkerUuid) THEN "uuid"
    ELSE IF Contains(line, MarkerAccessToken) THEN "accessToken"
    ELSE IF Contains(line, MarkerSessionId) THEN "sessionId"
    ELSE "none"

\* the arm the match takes for a line: the first whose guard holds
MatchArm(line) ==
    IF Contains(line, MarkerUsername) THEN "username"
    ELSE IF Contains(line, MarkerUuid) THEN "uuid"
    ELSE IF Contains(line, MarkerAccessToken) THEN "accessToken"
    ELSE IF Contains(line, MarkerUserName) THEN "userName"
    ELSE IF Contains(line, MarkerSessionId) THEN "sessionId"
    ELSE "none"

\* slice.get_mut(i): Some for an index inside the slice (0-based), else None
\* (mutation: the index one past the end is accepted, and the write is lost)
GetMutSkipsEnd(params, i) == i <= Len(params)
GetMut(params, i) == i < Len(params)

\* mutation of Assign: the value is inserted before the slot
AssignInserts(params, i, value) ==
    SubSeq(params, 1, i) \o <<value>> \o SubSeq(params, i + 1, Len(params))

\* *slot = value, for the 0-based index i
Assign(params, i, value) == [params EXCEPT ![i + 1] = value]

\* the index a next-line arm writes to (mutation: one line too far)
NextLineLate(i) == i + 2
NextLine(i) == i + 1

\* mutation of LoopBody: the arm is chosen on the line as it was in the input
LoopBodyOnInput(params, i, token, id, name) ==
    LET line == input_params[i + 1]
        arm == MatchArm(line)
        target == IF arm \in {"username", "uuid", "accessToken"}
                  THEN NextLine(i) ELSE i
        value == CASE arm = "username" -> FormatParam(name)
                   [] arm = "uuid" -> FormatParam(id)
                   [] arm = "accessToken" -> FormatParam(token)
                   [] arm = "userName" -> FormatUserName(name)
                   [] arm = "sessionId" -> FormatSessionId(token)
                   [] OTHER -> line
    IN  IF arm = "none" THEN [failed |-> FALSE, params |-> params]
        ELSE IF GetMut(params, target)
             THEN [failed |-> FALSE, params |-> Assign(params, target, value)]
             ELSE [failed |-> TRUE, params |-> params]

\* mutation of LoopBody: the "userName " arm appends the name to the line
LoopBodyAppends(params, i, token, id, name) ==
    LET line == params[i + 1]
        arm == MatchArm(line)
        target == IF arm \in {"username", "uuid", "accessToken"}
                  THEN NextLine(i) ELSE i
        value == CASE arm = "username" -> FormatParam(name)
                   [] arm = "uuid" -> FormatParam(id)
                   [] arm = "accessToken" -> FormatParam(token)
                   [] arm = "userName" -> line \o name
                   [] arm = "sessionId" -> FormatSessionId(token)
                   [] OTHER -> line
    IN  IF arm = "none" THEN [failed |-> FALSE, params |-> params]
        ELSE IF GetMut(params, target)
             THEN [failed |-> FALSE, params |-> Assign(params, target, value)]
             ELSE [failed |-> TRUE, params |-> params]

\* One iteration of the for loop at `i` (0-based): the lines afterwards, and
\* whether the `?` returned Err(MmcaiError::Other).
LoopBody(params, i, token, id, name) ==
    LET line == params[i + 1]
        arm == MatchArm(line)
        target == IF arm \in {"username", "uuid", "accessToken"}
                  THEN NextLine(i) ELSE i
        value == CASE arm = "username" -> FormatParam(name)
                   [] arm = "uuid" -> FormatParam(id)
                   [] arm = "accessToken" -> FormatParam(token)
                   [] arm = "userName" -> FormatUserName(name)
                   [] arm = "sessionId" -> FormatSessionId(token)
                   [] OTHER -> line
    IN  IF arm = "none" THEN [failed |-> FALSE, params |-> params]
        ELSE IF GetMut(params, target)
             THEN [failed |-> FALSE, params |-> Assign(params, target, value)]
             ELSE [failed |-> TRUE, params |-> params]

\* the whole for loop from index i on, and the value returned: the lines
\* afterwards, and whether the function returned Err(MmcaiError::Other)
RECURSIVE ModifyMinecraftParams(_, _, _, _, _)
ModifyMinecraftParams(params, i, token, id, name) ==
    IF i >= Len(params) THEN [failed |-> FALSE, params |-> params]
    ELSE LET r == LoopBody(params, i, token, id, name)
         IN  IF r.failed THEN r
             ELSE ModifyMinecraftParams(r.params, i + 1, token, id, name)

\* mutation of RewriteStep: a failure restores the lines of the input
RewriteStepRollsBack ==
    /\ pc = "rewrite"
    /\ index < Len(minecraft_params)
    /\ LET r == LoopBody(minecraft_params, index, access_token, uuid, playername)
       IN  IF r.failed
           THEN /\ rewrite' = Err("Other")
                /\ pc' = "rewrite_ret"
                /\ index' = index
                /\ minecraft_params' = input_params
           ELSE /\ rewrite' = rewrite
                /\ pc' = pc
                /\ index' = index + 1
                /\ minecraft_params' = r.params
    /\ UNCHANGED <<args, found, dirArg, fsys, username, password, api_url,
                   requests, responses, prefetched_data, login, input_params,
                   access_token, uuid, playername, stdin_read, child, events,
                   result>>

\* for index in 0..minecraft_params.len() { ... }: one iteration
RewriteStep ==
    /\ pc = "rewrite"
    /\ index < Len(minecraft_params)
    /\ LET r == LoopBody(minecraft_params, index, access_token, uuid, playername)
       IN  /\ minecraft_params' = r.params
           /\ IF r.failed
              THEN /\ rewrite' = Err("Other")
                   /\ pc' = "rewrite_ret"
                   /\ index' = index
              ELSE /\ rewrite' = rewrite
                   /\ pc' = pc
                   /\ index' = index + 1
    /\ UNCHANGED <<args, found, dirArg, fsys, username, password, api_url,
                   requests, responses, prefetched_data, login, input_params,
                   access_token, uuid, playername, stdin_read, child, events,
                   result>>

\* the loop is over: Ok(())
RewriteReturn ==
    /\ pc = "rewrite"
    /\ index >= Len(minecraft_params)
    /\ rewrite' = Ok(Unit)
    /\ pc' = "rewrite_ret"
    /\ UNCHANGED <<args, found, dirArg, fsys, username, password, api_url,
                   requests, responses, prefetched_data, login,
                   minecraft_params, input_params, access_token, uuid,
                   playername, index, stdin_read, child, events, result>>

(***************************************************************************)
(* yggdrasil_login                                                         *)
(***************************************************************************)
\* u8 values of the characters the modelled GET bodies use (their ASCII codes)
Ord(c) ==
    CASE c = "{" -> 123 [] c = "}" -> 125 [] c = "o" -> 111 [] c = "k" -> 107
      [] c = "!" -> 33  [] c = "m" -> 109 [] c = "e" -> 101 [] c = "t" -> 116
      [] c = "a" -> 97  [] c = "4" -> 52  [] c = "0" -> 48

\* the standard base64 alphabet
Base64Alphabet ==
    "ABCDEFGHIJKLMNOPQRSTUVWXYZabcdefghijklmnopqrstuvwxyz0123456789+/"

Base64Char(n) == SubSeq(Base64Alphabet, n + 1, n + 1)

\* BASE64_STANDARD.encode: 3 bytes to 4 characters, "=" padding at the end
RECURSIVE Base64Encode(_)
Base64Encode(s) ==
    IF Len(s) = 0 THEN ""
    ELSE LET b1 == Ord(SubSeq(s, 1, 1))
             b2 == IF Len(s) >= 2 THEN Ord(SubSeq(s, 2, 2)) ELSE 0
             b3 == IF Len(s) >= 3 THEN Ord(SubSeq(s, 3, 3)) ELSE 0
             c1 == Base64Char(b1 \div 4)
             c2 == Base64Char((b1 % 4) * 16 + (b2 \div 16))
             c3 == Base64Char((b2 % 16) * 4 + (b3 \div 64))
             c4 == Base64Char(b3 % 64)
         IN  IF Len(s) = 1 THEN c1 \o c2 \o "=="
             ELSE IF Len(s) = 2 THEN c1 \o c2 \o c3 \o "="
             ELSE c1 \o c2 \o c3 \o c4 \o Base64Encode(SubSeq(s, 4, Len(s)))

\* api_url.replace("/authlib/minecraft", "/auth/signin")
SigninUrl(url) == Replace(url, "/authlib/minecraft", "/auth/signin")

\* the header map of step 2
Headers ==
    { <<"User-Agent", "Mozilla/5.0 (Windows NT 10.0; Win64; x64; rv:138.0) Gecko/20100101 Firefox/138.0">>,
      <<"Accept", "application/json">>,
      <<"Accept-Language", "en-US,en;q=0.5">>,
      <<"Content-Type", "application/json">> }

\* AuthRequest { login: username, password, access_token: "null" }
AuthBody(user, pass) == [login |-> user, password |-> pass, accessToken |-> "null"]

\* client.get(api_url)
GetRequest(url) == [method |-> "GET", url |-> url, headers |-> {}, body |-> None]

\* client.post(&signin_url).headers(headers.clone()).json(&auth_body)
PostRequest(url, user, pass) ==
    [method |-> "POST", url |-> SigninUrl(url), headers |-> Headers,
     body |-> Some(AuthBody(user, pass))]

(* What the network answers to a request: send() fails (no response), or a  *)
(* response arrives with a status, a body text, and a body that can or      *)
(* cannot be read to its end.                                               *)
SendFailed == [tag |-> "SendErr"]
Response(status, body, readable) ==
    [tag |-> "Response", status |-> status, body |-> body, readable |-> readable]

\* the body texts the model's sign-in endpoint can answer with
TextSteve ==
    "{\"data\":{\"uuid\":\"u-1\",\"name\":\"Steve\",\"accessToken\":\"tok-1\"},\"status\":\"OK\",\"statusCode\":200,\"message\":\"\",\"errors\":[]}"
TextAlex ==
    "{\"data\":{\"uuid\":\"u-2\",\"name\":\"Alex\",\"accessToken\":\"tok-2\"},\"status\":\"OK\",\"statusCode\":200,\"message\":\"\",\"errors\":[]}"
TextNoData ==
    "{\"status\":\"ERROR\",\"statusCode\":401,\"message\":\"bad credentials\",\"errors\":[\"denied\"]}"
TextNoName ==
    "{\"data\":{\"uuid\":\"u-1\",\"accessToken\":\"tok-1\"},\"status\":\"OK\",\"statusCode\":200,\"message\":\"\",\"errors\":[]}"
TextNoErrors ==
    "{\"data\":{\"uuid\":\"u-1\",\"name\":\"Steve\",\"accessToken\":\"tok-1\"},\"status\":\"OK\",\"statusCode\":200,\"message\":\"\"}"
TextBigStatusCode ==
    "{\"data\":{\"uuid\":\"u-1\",\"name\":\"Steve\",\"accessToken\":\"tok-1\"},\"status\":\"OK\",\"statusCode\":70000,\"message\":\"\",\"errors\":[]}"
TextHtml == "<html>502 Bad Gateway</html>"

(* The JSON value of a body text: the fields AuthResponse and AuthData name, *)
(* each present (<<v>>) or missing (<<>>); a text that is no JSON object has *)
(* syntax = FALSE.                                                           *)
Json(data, status, statusCode, message, errors) ==
    [syntax |-> TRUE, data |-> data, status |-> status,
     statusCode |-> statusCode, message |-> message, errors |-> errors]
NotJson == [syntax |-> FALSE, data |-> <<>>, status |-> <<>>,
            statusCode |-> <<>>, message |-> <<>>, errors |-> <<>>]
JsonData(id, name, token) ==
    <<[uuid |-> id, name |-> name, accessToken |-> token]>>

JsonValue(text) ==
    CASE text = TextSteve ->
           Json(JsonData(<<"u-1">>, <<"Steve">>, <<"tok-1">>),
                <<"OK">>, <<200>>, <<"">>, << <<>> >>)
      [] text = TextAlex ->
           Json(JsonData(<<"u-2">>, <<"Alex">>, <<"tok-2">>),
                <<"OK">>, <<200>>, <<"">>, << <<>> >>)
      [] text = TextNoData ->
           Json(<<>>, <<"ERROR">>, <<401>>, <<"bad credentials">>,
                << <<"denied">> >>)
      [] text = TextNoName ->
           Json(JsonData(<<"u-1">>, <<>>, <<"tok-1">>),
                <<"OK">>, <<200>>, <<"">>, << <<>> >>)
      [] text = TextNoErrors ->
           Json(JsonData(<<"u-1">>, <<"Steve">>, <<"tok-1">>),
                <<"OK">>, <<200>>, <<"">>, <<>>)
      [] text = TextBigStatusCode ->
           Json(JsonData(<<"u-1">>, <<"Steve">>, <<"tok-1">>),
                <<"OK">>, <<70000>>, <<"">>, << <<>> >>)
      [] OTHER -> NotJson

\* the reqwest::Error of request number n
Cause(kind, n) == [kind |-> kind, request |-> n]

\* mutation of Deserializes: status_code read as a wider integer than u16
DeserializesWideStatusCode(text) ==
    LET doc == JsonValue(text) IN
    /\ doc.syntax
    /\ doc.data # <<>>
    /\ doc.data[1].uuid # <<>>
    /\ doc.data[1].name # <<>>
    /\ doc.data[1].accessToken # <<>>
    /\ doc.status # <<>>
    /\ doc.statusCode # <<>>
    /\ doc.message # <<>>
    /\ doc.errors # <<>>

\* serde's Deserialize for AuthResponse and AuthData: every field that is not
\* an Option must be present, status_code must fit a u16
Deserializes(text) ==
    LET doc == JsonValue(text) IN
    /\ doc.syntax
    /\ doc.data # <<>>
    /\ doc.data[1].uuid # <<>>
    /\ doc.data[1].name # <<>>
    /\ doc.data[1].accessToken # <<>>
    /\ doc.status # <<>>
    /\ doc.statusCode # <<>>
    /\ doc.statusCode[1] \in 0..65535
    /\ doc.message # <<>>
    /\ doc.errors # <<>>

AuthResponse(text) ==
    LET doc == JsonValue(text) IN
    [data |-> [uuid |-> doc.data[1].uuid[1], name |-> doc.data[1].name[1],
               access_token |-> doc.data[1].accessToken[1]],
     status |-> doc.status[1], status_code |-> doc.statusCode[1],
     message |-> doc.message[1], errors |-> doc.errors[1]]

\* mutation of GetPrefetchedData: a body that cannot be read counts as empty
GetPrefetchedDataLossy(answer, n) ==
    IF answer.tag = "SendErr" THEN Err(Cause("request", n))
    ELSE IF ~answer.readable THEN Ok("")
    ELSE Ok(Base64Encode(answer.body))

\* get_prefetched_data: client.get(api_url).send()?.text()? then base64;
\* `answer` is the network's answer to request number n
GetPrefetchedData(answer, n) ==
    IF answer.tag = "SendErr" THEN Err(Cause("request", n))
    ELSE IF ~answer.readable THEN Err(Cause("body", n))
    ELSE Ok(Base64Encode(answer.body))

\* perform_authentication: ... .send()?.json::<AuthResponse>()
PerformAuthentication(answer, n) ==
    IF answer.tag = "SendErr" THEN Err(Cause("request", n))
    ELSE IF ~answer.readable THEN Err(Cause("body", n))
    ELSE IF ~Deserializes(answer.body) THEN Err(Cause("decode", n))
    ELSE Ok(AuthResponse(answer.body))

\* mutation of ResponseBody: one placeholder for both failures of the re-POST
ResponseBodySamePlaceholder(answer) ==
    IF answer.tag = "SendErr" \/ ~answer.readable
    THEN "<request failed, no response body>"
    ELSE answer.body

\* mutation of ResponseBody: the body text of the response is not kept
ResponseBodyDropped(answer) ==
    IF answer.tag = "SendErr" THEN "<request failed, no response body>"
    ELSE "<failed to read response body>"

\* the response_body of the Err arm
ResponseBody(answer) ==
    IF answer.tag = "SendErr" THEN "<request failed, no response body>"
    ELSE IF ~answer.readable THEN "<failed to read response body>"
    ELSE answer.body

\* LoginResult { prefetched_data, access_token, selected_profile }
LoginResult(blob, resp) ==
    [prefetched_data |-> blob, access_token |-> resp.data.access_token,
     selected_profile |-> [id |-> resp.data.uuid, name |-> resp.data.name]]

\* the answers the model's network can give
GetBodies == {"", "{}", "ok!", "meta"}
GetAnswers ==
    {SendFailed}
    \cup {Response(200, b, r) : b \in GetBodies, r \in BOOLEAN}
    \cup {Response(404, "404", TRUE)}
PostBodies == {TextSteve, TextAlex, TextNoData, TextNoName, TextNoErrors,
               TextBigStatusCode, TextHtml}
PostAnswers ==
    {SendFailed}
    \cup {Response(200, b, r) : b \in PostBodies, r \in BOOLEAN}
    \cup {Response(401, TextNoData, TRUE), Response(500, TextSteve, TRUE)}

\* Client::builder().redirect(Policy::none()).build()
\*     .map_err(MmcaiError::ReqwestClientBuildFailed)?
LoginBuildClient ==
    /\ pc = "login_build"
    /\ \E built \in BOOLEAN :
         IF built
         THEN pc' = "login_get" /\ login' = login
         ELSE pc' = "login_ret" /\ login' = Err([kind |-> "ReqwestClientBuildFailed"])
    /\ UNCHANGED <<locateVars, loginArgs, netVars, prefetched_data,
                   minecraft_params, rewriteArgs, index, rewrite, mainVars>>

\* let prefetched_data =
\*     get_prefetched_data().map_err(MmcaiError::YggdrasilHelloFailed)?;
LoginPrefetch ==
    /\ pc = "login_get"
    /\ \E answer \in GetAnswers :
         LET n == Len(requests) + 1
             r == GetPrefetchedData(answer, n)
         IN  /\ requests' = Append(requests, GetRequest(api_url))
             /\ responses' = Append(responses, answer)
             /\ IF r.tag = "Err"
                THEN /\ login' = Err([kind |-> "YggdrasilHelloFailed",
                                      source |-> r.error])
                     /\ pc' = "login_ret"
                     /\ prefetched_data' = prefetched_data
                ELSE /\ prefetched_data' = Some(r.value)
                     /\ pc' = "login_post"
                     /\ login' = login
    /\ UNCHANGED <<locateVars, loginArgs, minecraft_params, rewriteArgs, index,
                   rewrite, mainVars>>

\* mutation of LoginSignIn: a send() failure of the POST returns at once
LoginSignInReturnsOnSendErr ==
    /\ pc = "login_post"
    /\ \E answer \in PostAnswers :
         LET n == Len(requests) + 1
             r == PerformAuthentication(answer, n)
         IN  /\ requests' = Append(requests, PostRequest(api_url, username, password))
             /\ responses' = Append(responses, answer)
             /\ IF r.tag = "Ok"
                THEN /\ login' = Ok(LoginResult(prefetched_data.value, r.value))
                     /\ pc' = "login_ret"
                ELSE IF answer.tag = "SendErr"
                THEN /\ login' = Err([kind |-> "YggdrasilAuthFailed",
                                      source |-> r.error,
                                      response |-> ResponseBody(answer)])
                     /\ pc' = "login_ret"
                ELSE /\ login' = [tag |-> "Pending", source |-> r.error]
                     /\ pc' = "login_repost"
    /\ UNCHANGED <<locateVars, loginArgs, prefetched_data, minecraft_params,
                   rewriteArgs, index, rewrite, mainVars>>

\* match perform_authentication() { Ok(resp) => resp, Err(source) => ... }
\* and, on Ok, the LoginResult the function returns
LoginSignIn ==
    /\ pc = "login_post"
    /\ \E answer \in PostAnswers :
         LET n == Len(requests) + 1
             r == PerformAuthentication(answer, n)
         IN  /\ requests' = Append(requests, PostRequest(api_url, username, password))
             /\ responses' = Append(responses, answer)
             /\ IF r.tag = "Ok"
                THEN /\ login' = Ok(LoginResult(prefetched_data.value, r.value))
                     /\ pc' = "login_ret"
                ELSE /\ login' = [tag |-> "Pending", source |-> r.error]
                     /\ pc' = "login_repost"
    /\ UNCHANGED <<locateVars, loginArgs, prefetched_data, minecraft_params,
                   rewriteArgs, index, rewrite, mainVars>>

\* mutation of LoginDiagnostic: the POST is sent again while send() fails
LoginDiagnosticRetries ==
    /\ pc = "login_repost"
    /\ \E answer \in PostAnswers :
         /\ requests' = Append(requests, PostRequest(api_url, username, password))
         /\ responses' = Append(responses, answer)
         /\ IF answer.tag = "SendErr"
            THEN UNCHANGED <<login, pc>>
            ELSE /\ login' = Err([kind |-> "YggdrasilAuthFailed",
                                  source |-> login.source,
                                  response |-> ResponseBody(answer)])
                 /\ pc' = "login_ret"
    /\ UNCHANGED <<locateVars, loginArgs, prefetched_data, minecraft_params,
                   rewriteArgs, index, rewrite, mainVars>>

\* the Err(source) arm: the second POST, its response_body, and
\* return Err(MmcaiError::YggdrasilAuthFailed { source, response })
LoginDiagnostic ==
    /\ pc = "login_repost"
    /\ \E answer \in PostAnswers :
         /\ requests' = Append(requests, PostRequest(api_url, username, password))
         /\ responses' = Append(responses, answer)
         /\ login' = Err([kind |-> "YggdrasilAuthFailed",
                          source |-> login.source,
                          response |-> ResponseBody(answer)])
         /\ pc' = "login_ret"
    /\ UNCHANGED <<locateVars, loginArgs, prefetched_data, minecraft_params,
                   rewriteArgs, index, rewrite, mainVars>>

(***************************************************************************)
(* validate_args                                                           *)
(***************************************************************************)
\* match args.len() { len if len < 4 => Err(InvalidArgument(args[0])), ... };
\* args[0] of an empty vector panics
ValidateArgs(a) ==
    IF Len(a) < 4
    THEN IF Len(a) = 0 THEN [tag |-> "Panic"]
         ELSE Err([kind |-> "InvalidArgument", arg |-> a[1]])
    ELSE IF Len(a) = 4 THEN Err([kind |-> "CannotRunDirectly"])
    ELSE Ok(Unit)

(***************************************************************************)
(* find_authlib_injector                                                   *)
(***************************************************************************)
(* The file system as the scan sees it: exe_dir is current_exe()'s parent    *)
(* (None when either is unavailable), readable says whether read_dir         *)
(* succeeds, and entries is what the iterator yields, in order: an Err, or   *)
(* an entry with its file name; unicode says whether OsStr::to_str gives     *)
(* the name (Some) or not (None: the name is not valid Unicode, and `name`   *)
(* is then its lossy rendering).                                             *)
EntryErr == [io |-> FALSE, name |-> "", unicode |-> FALSE]
Entry(name, unicode) == [io |-> TRUE, name |-> name, unicode |-> unicode]

\* the closure is_filename_valid
IsFilenameValid(filename) ==
    StartsWith(filename, "authlib-injector") /\ EndsWith(filename, ".jar")

\* file_name.to_str().map_or(false, is_filename_valid)
EntryMatches(e) == e.unicode /\ IsFilenameValid(e.name)

\* mutation of Find: the last match instead of the first
FindLast(entries) ==
    IF \E i \in 1..Len(entries) : entries[i].io /\ EntryMatches(entries[i])
    THEN CHOOSE i \in 1..Len(entries) :
           /\ entries[i].io /\ EntryMatches(entries[i])
           /\ \A j \in (i + 1)..Len(entries) :
                ~(entries[j].io /\ EntryMatches(entries[j]))
    ELSE 0

\* entries.filter_map(IoResult::ok).find(...): the position of the first Ok
\* entry that matches, 0 when there is none
Find(entries) ==
    IF \E i \in 1..Len(entries) : entries[i].io /\ EntryMatches(entries[i])
    THEN CHOOSE i \in 1..Len(entries) :
           /\ entries[i].io /\ EntryMatches(entries[i])
           /\ \A j \in 1..(i - 1) : ~(entries[j].io /\ EntryMatches(entries[j]))
    ELSE 0

\* DirEntry::path(): the directory's path joined with the file name
EntryPath(dir, e) == dir \o "/" \o e.name

\* the directory scanned: the argument, or the running program's directory
ResolveDir(path, fs) == IF path.tag = "Some" THEN path ELSE fs.exe_dir

FindAuthlibInjector(path, fs) ==
    LET dir == ResolveDir(path, fs)
    IN  IF dir.tag = "None" THEN None
        ELSE IF ~fs.readable THEN None
        ELSE LET i == Find(fs.entries)
             IN  IF i = 0 THEN None
                 ELSE Some(EntryPath(dir.value, fs.entries[i]))

(***************************************************************************)
(* The inputs the model draws from.                                        *)
(***************************************************************************)
\* sequences over S of length at most n
SeqsUpTo(S, n) == UNION {[1..k -> S] : k \in 0..n}

\* argument vectors: the program name, username, password, api url, the
\* parameter main does not read, then arguments for the child
ArgAt(i) ==
    CASE i = 1 -> "mmcai_rs" [] i = 2 -> "steve" [] i = 3 -> "secret"
      [] i = 4 -> "https://skin.example/api/authlib/minecraft"
      [] i = 5 -> "java" [] OTHER -> "-Xmx1G"
ArgVectors == {[i \in 1..n |-> ArgAt(i)] : n \in 0..MaxArgs}

\* directory entries and file systems for the scan
EntryChoices ==
    { Entry("authlib-injector-1.0.0.jar", TRUE),
      Entry("authlib-injector-1.0.0.zip", TRUE),
      Entry("authlib-injector-1.0.0", TRUE),
      Entry("authlib-injector-.catch.me.if.you.can.jar", TRUE),
      Entry("not-start-with.authlib-injector.jar", TRUE),
      Entry("authlib-injector.jar.not-end-with", TRUE),
      Entry("authlib-injector.jar", TRUE),
      Entry("authlib-injector-?.jar", FALSE),
      EntryErr }
FileSystem(exe_dir, readable, entries) ==
    [exe_dir |-> exe_dir, readable |-> readable, entries |-> entries]
FileSystems ==
    { FileSystem(x, r, es) : x \in {None, Some("/opt/mmcai")}, r \in BOOLEAN,
                             es \in SeqsUpTo(EntryChoices, MaxDir) }
DirArgs == {None, Some("/tmp/d")}
MainFileSystems ==
    { FileSystem(None, TRUE, <<Entry("authlib-injector-1.0.0.jar", TRUE)>>),
      FileSystem(Some("/opt/mmcai"), FALSE, <<>>),
      FileSystem(Some("/opt/mmcai"), TRUE, <<Entry("authlib-injector-1.0.0.zip", TRUE)>>),
      FileSystem(Some("/opt/mmcai"), TRUE,
                 <<EntryErr, Entry("authlib-injector-1.0.0.jar", TRUE)>>) }

\* the parameters of yggdrasil_login called on its own
Usernames == {"steve", "alex"}
Passwords == {"secret", ""}
ApiUrls == {"https://skin.example/api/authlib/minecraft", "https://skin.example/"}

\* lines on main's standard input
StdinLines == {"launch", " launch\t", "param --username", " x", "userName AnyHow"}

\* find_authlib_injector called on its own
Locate ==
    /\ pc = "locate"
    /\ found' = FindAuthlibInjector(dirArg, fsys)
    /\ pc' = "locate_ret"
    /\ UNCHANGED <<dirArg, fsys, loginArgs, netVars, prefetched_data, login,
                   minecraft_params, rewriteArgs, index, rewrite, mainVars>>

(***************************************************************************)
(* main                                                                    *)
(***************************************************************************)
NoChild == [spawned |-> FALSE, program |-> "", args |-> <<>>, stdin |-> <<>>,
            open |-> FALSE, next |-> 0]

Event(call, ok) == [call |-> call, ok |-> ok]

\* main returns Err(e) (or panics): the process ends without a child
Fail(e) ==
    /\ result' = e
    /\ pc' = "exit"

\* validate_args(&args)?;
MainValidate ==
    /\ pc = "main_start"
    /\ LET r == ValidateArgs(args)
       IN  /\ events' = Append(events, Event("validate_args", r.tag = "Ok"))
           /\ IF r.tag = "Ok"
              THEN pc' = "main_locate" /\ result' = result
              ELSE Fail(r)
    /\ UNCHANGED <<args, locateVars, loginArgs, netVars, prefetched_data, login,
                   minecraft_params, rewriteArgs, index, rewrite, stdin_read,
                   child>>

\* find_authlib_injector(None).ok_or(MmcaiError::AuthlibInjectorNotFound)?;
\* then username, password, api_url and the call of yggdrasil_login
MainLocate ==
    /\ pc = "main_locate"
    /\ \E fs \in MainFileSystems :
         LET r == FindAuthlibInjector(None, fs)
         IN  /\ fsys' = fs
             /\ dirArg' = None
             /\ found' = r
             /\ events' = Append(events, Event("find_authlib_injector", r.tag = "Some"))
             /\ IF r.tag = "Some"
                THEN /\ username' = args[2]
                     /\ password' = args[3]
                     /\ api_url' = args[4]
                     /\ pc' = "login_build"
                     /\ result' = result
                ELSE /\ Fail(Err([kind |-> "AuthlibInjectorNotFound"]))
                     /\ UNCHANGED loginArgs
    /\ UNCHANGED <<args, netVars, prefetched_data, login, minecraft_params,
                   rewriteArgs, index, rewrite, stdin_read, child>>

\* let login_result = yggdrasil_login(...)?;
\* let mut minecraft_params: Vec<String> = Vec::new();
MainAfterLogin ==
    /\ pc = "login_ret"
    /\ events' = Append(events, Event("yggdrasil_login", login.tag = "Ok"))
    /\ IF login.tag = "Ok"
       THEN /\ pc' = "main_read"
            /\ minecraft_params' = <<>>
            /\ result' = result
       ELSE /\ Fail(login)
            /\ UNCHANGED minecraft_params
    /\ UNCHANGED <<args, locateVars, loginArgs, netVars, prefetched_data, login,
                   rewriteArgs, index, rewrite, stdin_read, child>>

\* the call modify_minecraft_params(&mut minecraft_params, &access_token,
\* &uuid, &playername) with the lines read so far
CallRewrite(lines) ==
    /\ minecraft_params' = lines
    /\ input_params' = lines
    /\ access_token' = login.value.access_token
    /\ uuid' = login.value.selected_profile.id
    /\ playername' = login.value.selected_profile.name
    /\ index' = 0
    /\ pc' = "rewrite"

\* one turn of `for line in stdin.lock().lines()`: a read error, the end of
\* the input, or a line, trimmed and pushed, with the break on "launch"
MainReadLine ==
    /\ pc = "main_read"
    /\ \/ /\ Fail(Err([kind |-> "ReadMinecraftParamsFailed"]))
          /\ UNCHANGED <<minecraft_params, rewriteArgs, index, stdin_read>>
       \/ /\ CallRewrite(minecraft_params)
          /\ UNCHANGED <<stdin_read, result>>
       \/ /\ Len(stdin_read) < MaxStdin
          /\ \E raw \in StdinLines :
               LET line == Trim(raw)
                   lines == Append(minecraft_params, line)
               IN  /\ stdin_read' = Append(stdin_read, raw)
                   /\ IF line = "launch"
                      THEN CallRewrite(lines)
                      ELSE /\ minecraft_params' = lines
                           /\ UNCHANGED <<rewriteArgs, index, pc>>
          /\ UNCHANGED result
    /\ UNCHANGED <<args, locateVars, loginArgs, netVars, prefetched_data, login,
                   rewrite, child, events>>

\* the jvm_args of the child: the two inserted flags, then args[5..]
JvmArgs(a, path, url, blob) ==
    <<"-javaagent:" \o path \o "=" \o url,
      "-Dauthlibinjector.yggdrasil.prefetched=" \o blob>>
    \o SubSeq(a, 6, Len(a))

\* mutation of RewriteFailed: the Result of the rewrite is dropped
RewriteFailedIgnored(r) == FALSE

\* the `?` after modify_minecraft_params(...): does main return here
RewriteFailed(r) == r.tag # "Ok"

\* modify_minecraft_params(...)?; env::var("INST_JAVA"); the jvm_args (with
\* authlib_injector_path.to_str()); Command::spawn()
MainLaunch ==
    /\ pc = "rewrite_ret"
    /\ events' = Append(events, Event("modify_minecraft_params", rewrite.tag = "Ok"))
    /\ IF RewriteFailed(rewrite)
       THEN Fail(Err([kind |-> rewrite.error])) /\ child' = child
       ELSE \E java \in {None, Some("/usr/bin/java")}, unicode \in BOOLEAN,
               spawns \in BOOLEAN :
              IF java.tag = "None"
              THEN Fail(Err([kind |-> "JavaExecutableNotFound"])) /\ child' = child
              ELSE IF ~unicode
              THEN Fail(Err([kind |-> "Other"])) /\ child' = child
              ELSE IF ~spawns
              THEN Fail(Err([kind |-> "SpawnProcessFailed"])) /\ child' = child
              ELSE /\ child' = [spawned |-> TRUE, program |-> java.value,
                                args |-> JvmArgs(args, found.value, api_url,
                                                 login.value.prefetched_data),
                                stdin |-> <<>>, open |-> TRUE, next |-> 0]
                   /\ pc' = "main_write"
                   /\ result' = result
    /\ UNCHANGED <<args, locateVars, loginArgs, netVars, prefetched_data, login,
                   minecraft_params, rewriteArgs, index, rewrite, stdin_read>>

\* one turn of minecraft_params.iter().for_each(|line| { let _ = writeln!(...) }):
\* the line and a newline reach the child's standard input, unless the pipe
\* is (or has just been) closed by the child; the error is dropped
MainWriteLine ==
    /\ pc = "main_write"
    /\ child.next < Len(minecraft_params)
    /\ \E closes \in BOOLEAN :
         IF child.open /\ ~closes
         THEN child' = [child EXCEPT
                          !.stdin = Append(@, minecraft_params[child.next + 1] \o "\n"),
                          !.next = @ + 1]
         ELSE child' = [child EXCEPT !.open = FALSE, !.next = @ + 1]
    /\ UNCHANGED <<pc, args, locateVars, loginArgs, netVars, prefetched_data,
                   login, minecraft_params, rewriteArgs, index, rewrite,
                   stdin_read, events, result>>

\* child.wait().map_err(|_| MmcaiError::Other)?; process::exit on failure
MainWait ==
    /\ pc = "main_write"
    /\ child.next >= Len(minecraft_params)
    /\ \E status \in {"wait failed", "success", "code 3", "signal"} :
         result' = CASE status = "wait failed" -> Err([kind |-> "Other"])
                     [] status = "success" -> Ok(Unit)
                     [] status = "code 3" -> [tag |-> "Exit", code |-> 3]
                     [] OTHER -> [tag |-> "Exit", code |-> 1]
    /\ pc' = "exit"
    /\ UNCHANGED <<args, locateVars, loginArgs, netVars, prefetched_data, login,
                   minecraft_params, rewriteArgs, index, rewrite, stdin_read,
                   child, events>>

(***************************************************************************)
(* Inputs of modify_minecraft_params called on its own.                    *)
(***************************************************************************)
ParamLines ==
    { "param --username", "param --uuid", "param --accessToken",
      "userName AnyHow", "sessionId AnyHow", "param AnyHow", "launch",
      "param --uuid userName ", "userName sessionId " }

\* the sequence and the identity of test_modify_minecraft_params
TestParams ==
    << "---START---", "param --username", "param AnyHow", "param --uuid",
       "param AnyHow", "param --accessToken", "param AnyHow",
       "userName AnyHow", "sessionId AnyHow", "launch", "---END---" >>
TestExpected ==
    << "---START---", "param --username", "param TEST_PLAYERNAME",
       "param --uuid", "param TEST_UUID", "param --accessToken",
       "param TEST_ACCESS_TOKEN", "userName TEST_PLAYERNAME",
       "sessionId token:TEST_ACCESS_TOKEN", "launch", "---END---" >>
Identity(token, id, name) == [access_token |-> token, uuid |-> id, playername |-> name]
TestIdentity == Identity("TEST_ACCESS_TOKEN", "TEST_UUID", "TEST_PLAYERNAME")

\* identities: the test's, one whose values form markers, an empty one
Identities ==
    { TestIdentity,
      Identity("t userName ", "--accessToken", "--uuid"),
      Identity("", "", "") }

ParamInputs == SeqsUpTo(ParamLines, MaxLen) \cup {TestParams}

(***************************************************************************)
(* Initial states and specifications.                                      *)
(***************************************************************************)
NoFileSystem == FileSystem(None, FALSE, <<>>)

\* everything a run has not touched yet
Untouched ==
    /\ found = NoValue
    /\ requests = <<>>
    /\ responses = <<>>
    /\ prefetched_data = None
    /\ login = NoValue
    /\ rewrite = NoValue
    /\ index = 0
    /\ stdin_read = <<>>
    /\ child = NoChild
    /\ events = <<>>
    /\ result = NoValue

NoLoginArgs == username = "" /\ password = "" /\ api_url = ""
NoRewriteArgs ==
    /\ minecraft_params = <<>>
    /\ input_params = <<>>
    /\ access_token = ""
    /\ uuid = ""
    /\ playername = ""
NoLocateArgs == dirArg = None /\ fsys = NoFileSystem

\* main: the process starts with its argument vector
Init ==
    /\ pc = "main_start"
    /\ args \in ArgVectors
    /\ NoLocateArgs /\ NoLoginArgs /\ NoRewriteArgs /\ Untouched

Next ==
    \/ MainValidate
    \/ MainLocate
    \/ LoginBuildClient
    \/ LoginPrefetch
    \/ LoginSignIn
    \/ LoginDiagnostic
    \/ MainAfterLogin
    \/ MainReadLine
    \/ RewriteStep
    \/ RewriteReturn
    \/ MainLaunch
    \/ MainWriteLine
    \/ MainWait

Spec == Init /\ [][Next]_vars

\* yggdrasil_login called with each username, password and api url
InitLogin ==
    /\ pc = "login_build"
    /\ args = <<>>
    /\ username \in Usernames
    /\ password \in Passwords
    /\ api_url \in ApiUrls
    /\ NoLocateArgs /\ NoRewriteArgs /\ Untouched

NextLogin ==
    \/ LoginBuildClient
    \/ LoginPrefetch
    \/ LoginSignIn
    \/ LoginDiagnostic

SpecLogin == InitLogin /\ [][NextLogin]_vars

\* modify_minecraft_params called with each sequence and identity
InitRewrite ==
    /\ pc = "rewrite"
    /\ args = <<>>
    /\ minecraft_params \in ParamInputs
    /\ input_params = minecraft_params
    /\ \E who \in Identities :
         /\ access_token = who.access_token
         /\ uuid = who.uuid
         /\ playername = who.playername
    /\ NoLocateArgs /\ NoLoginArgs /\ Untouched

NextRewrite ==
    \/ RewriteStep
    \/ RewriteReturn

SpecRewrite == InitRewrite /\ [][NextRewrite]_vars

\* find_authlib_injector called with each argument on each file system
InitLocate ==
    /\ pc = "locate"
    /\ args = <<>>
    /\ dirArg \in DirArgs
    /\ fsys \in FileSystems
    /\ NoLoginArgs /\ NoRewriteArgs /\ Untouched

NextLocate == Locate

SpecLocate == InitLocate /\ [][NextLocate]_vars

(***************************************************************************)
(* Properties of yggdrasil_login (checked under SpecLogin).                *)
(***************************************************************************)
\* positions of the requests of one method
RequestsOf(method) == {i \in 1..Len(requests) : requests[i].method = method}
Gets == RequestsOf("GET")
Posts == RequestsOf("POST")

\* a GET or POST that ended without a body in hand: send() failed, or the
\* body could not be read
AnswerFailed(answer) == answer.tag = "SendErr" \/ ~answer.readable
AnswerRead(answer) == answer.tag = "Response" /\ answer.readable

\* the body texts of the model that have the shape of section 4.2, step 3,
\* with the identity each carries
WellFormedTexts == {TextSteve, TextAlex}
IdentityOf(text) ==
    IF text = TextSteve THEN Identity("tok-1", "u-1", "Steve")
    ELSE Identity("tok-2", "u-2", "Alex")
WellFormedAnswer(answer) == AnswerRead(answer) /\ answer.body \in WellFormedTexts

\* the base64 text of each GET body of the model (RFC 4648)
KnownBase64(body) ==
    CASE body = "" -> ""
      [] body = "{}" -> "e30="
      [] body = "ok!" -> "b2sh"
      [] body = "meta" -> "bWV0YQ=="
      [] body = "404" -> "NDA0"

LoginFailedWith(kind) ==
    pc = "login_ret" /\ login.tag = "Err" /\ login.error.kind = kind

\* C1: when the prefetch GET fails (send() or reading the body fails), login
\* ends with YggdrasilHelloFailed (PrefetchFailed) and no POST is sent; every
\* POST comes after a GET whose body was received.
C1_PrefetchFailureSendsNoPost ==
    /\ \A i \in Gets :
         AnswerFailed(responses[i]) =>
           LoginFailedWith("YggdrasilHelloFailed") /\ Posts = {}
    /\ \A i \in Posts : \E j \in Gets : j < i /\ AnswerRead(responses[j])

C1_Witness ==
    /\ Len(responses) = 1
    /\ responses[1].tag = "Response"
    /\ ~responses[1].readable
    /\ LoginFailedWith("YggdrasilHelloFailed")

\* the first sign-in POST was answered, and the answer is not a well-formed
\* response
FirstSignInUnparsed ==
    /\ Len(responses) >= 2
    /\ responses[2].tag = "Response"
    /\ ~WellFormedAnswer(responses[2])

\* after the first POST exactly one more request was sent, the same POST
OneIdenticalRePost ==
    /\ Len(requests) = 3
    /\ requests[2].method = "POST"
    /\ requests[3] = requests[2]
    /\ requests[2].url = SigninUrl(api_url)

\* C2 as stated: an unparsable first sign-in response leads to exactly one
\* identical re-POST and to YggdrasilAuthFailed (SignInFailed) whose response
\* text is the raw body text of the second response.
C2_DiagnosticIsSecondBody ==
    (pc = "login_ret" /\ FirstSignInUnparsed) =>
        /\ OneIdenticalRePost
        /\ LoginFailedWith("YggdrasilAuthFailed")
        /\ AnswerRead(responses[3])
        /\ login.error.response = responses[3].body

\* C2 amended: ... whose response text is the raw body text of the second
\* response when that response arrived and its body could be read, and a
\* placeholder text otherwise.
C2_DiagnosticIsSecondBodyWhenRead ==
    (pc = "login_ret" /\ FirstSignInUnparsed) =>
        /\ OneIdenticalRePost
        /\ LoginFailedWith("YggdrasilAuthFailed")
        /\ AnswerRead(responses[3]) => login.error.response = responses[3].body
        /\ AnswerFailed(responses[3]) =>
             login.error.response \in {"<request failed, no response body>",
                                       "<failed to read response body>"}

C2_Witness ==
    /\ pc = "login_ret"
    /\ FirstSignInUnparsed
    /\ responses[2].readable
    /\ AnswerRead(responses[3])
    /\ login.error.response = TextHtml

\* C6: a prefetch GET answered with a status outside 200..299 makes login end
\* with YggdrasilHelloFailed (PrefetchFailed), with no POST sent and no
\* LoginResult.
C6_NonSuccessStatusAborts ==
    \A i \in Gets :
      (responses[i].tag = "Response" /\ responses[i].status \notin 200..299) =>
        /\ LoginFailedWith("YggdrasilHelloFailed")
        /\ Posts = {}

\* C7: login returns Ok only after a GET whose body was received and a first
\* POST with a well-formed response, and then with the token, id and name of
\* that response and the base64 text of the GET body; every other finished
\* login is an Err; after a re-POST the result is never Ok.
C7_ResultOnlyFromFirstSignIn ==
    /\ login.tag = "Ok" =>
         /\ Len(requests) = 2
         /\ AnswerRead(responses[1])
         /\ WellFormedAnswer(responses[2])
         /\ LET who == IdentityOf(responses[2].body)
            IN  /\ login.value.access_token = who.access_token
                /\ login.value.selected_profile.id = who.uuid
                /\ login.value.selected_profile.name = who.playername
         /\ login.value.prefetched_data = KnownBase64(responses[1].body)
    /\ (/\ pc = "login_ret"
        /\ ~(/\ Len(responses) = 2
             /\ AnswerRead(responses[1])
             /\ WellFormedAnswer(responses[2]))) => login.tag = "Err"
    /\ Len(requests) >= 3 => login.tag # "Ok"

C7_Witness ==
    /\ pc = "login_ret"
    /\ Len(responses) = 3
    /\ WellFormedAnswer(responses[3])
    /\ login.tag = "Err"

\* C8: at most one GET and two POSTs; one POST when the first sign-in
\* response parses, two when it does not; nothing is sent after the second
\* POST, whatever its outcome.
C8_AtMostOneRePost ==
    /\ Cardinality(Gets) <= 1
    /\ Cardinality(Posts) <= 2
    /\ (pc = "login_ret" /\ Posts # {}) =>
         IF WellFormedAnswer(responses[2])
         THEN Cardinality(Posts) = 1
         ELSE Cardinality(Posts) = 2
    /\ Cardinality(Posts) = 2 => pc = "login_ret" /\ ~ENABLED NextLogin

C8_Witness ==
    /\ pc = "login_ret"
    /\ Cardinality(Posts) = 2
    /\ responses[3].tag = "SendErr"

(***************************************************************************)
(* Properties of modify_minecraft_params (checked under SpecRewrite).      *)
(***************************************************************************)
HasNextLineMarker(line) ==
    \/ Contains(line, "param --username")
    \/ Contains(line, "param --uuid")
    \/ Contains(line, "param --accessToken")

IsMarkerLine(line) ==
    \/ HasNextLineMarker(line)
    \/ Contains(line, "userName ")
    \/ Contains(line, "sessionId ")

\* the five substitution strings
Substitutions ==
    { "param " \o playername, "param " \o uuid, "param " \o access_token,
      "userName " \o playername, "sessionId token:" \o access_token }

\* C3: when the line examined at the last index holds a next-line marker, the
\* rewrite returns Err(Other) (MalformedParameterStream) at that step, writes
\* nothing outside the sequence and does not go on to return Ok.
C3_MarkerAtLastIndexFails ==
    [][(/\ pc = "rewrite"
        /\ index = Len(minecraft_params) - 1
        /\ HasNextLineMarker(minecraft_params[index + 1]))
       => (/\ pc' = "rewrite_ret"
           /\ rewrite' = Err("Other")
           /\ minecraft_params' = minecraft_params)]_vars

C3_Witness ==
    /\ pc = "rewrite_ret"
    /\ rewrite = Err("Other")
    /\ index = Len(minecraft_params) - 1
    /\ HasNextLineMarker(minecraft_params[index + 1])

\* C4: at every point of the rewrite, and after it whether it succeeded or
\* failed, the sequence has the length of the input and each line is the
\* input's line at that index or one of the five substitution strings.
C4_LengthAndPositionsKept ==
    /\ Len(minecraft_params) = Len(input_params)
    /\ \A i \in 1..Len(input_params) :
         \/ minecraft_params[i] = input_params[i]
         \/ minecraft_params[i] \in Substitutions

C4_Witness ==
    /\ pc = "rewrite_ret"
    /\ rewrite.tag = "Err"
    /\ minecraft_params # input_params

\* the inputs C5 is about: a next-line marker line is followed by a line
\* that holds no marker, and "param " with an identity value holds no marker
C5_Input ==
    /\ \A i \in 1..Len(input_params) :
         HasNextLineMarker(input_params[i]) =>
           i < Len(input_params) /\ ~IsMarkerLine(input_params[i + 1])
    /\ \A v \in {access_token, uuid, playername} : ~IsMarkerLine("param " \o v)

C5_TestScenario ==
    (/\ input_params = TestParams
     /\ access_token = "TEST_ACCESS_TOKEN"
     /\ uuid = "TEST_UUID"
     /\ playername = "TEST_PLAYERNAME") => minecraft_params = TestExpected

\* C5 as stated: on such an input the rewrite succeeds; the line after each
\* "param --username" / "param --uuid" / "param --accessToken" line is "param "
\* with the name / id / token, each line containing "userName " is "userName "
\* with the name, each line containing "sessionId " is "sessionId token:" with
\* the token, every other line, the marker lines included, is unchanged; the
\* test's 11 lines give the test's expected 11 lines.
C5_EveryMatchingRuleApplied ==
    (pc = "rewrite_ret" /\ C5_Input) =>
      /\ rewrite = Ok(Unit)
      /\ Len(minecraft_params) = Len(input_params)
      /\ \A i \in 1..Len(input_params) :
           LET line == input_params[i]
               out == minecraft_params[i]
               prev == IF i > 1 THEN input_params[i - 1] ELSE ""
           IN  /\ Contains(prev, "param --username") => out = "param " \o playername
               /\ Contains(prev, "param --uuid") => out = "param " \o uuid
               /\ Contains(prev, "param --accessToken") => out = "param " \o access_token
               /\ Contains(line, "userName ") => out = "userName " \o playername
               /\ Contains(line, "sessionId ") => out = "sessionId token:" \o access_token
               /\ HasNextLineMarker(line) => out = line
               /\ (~HasNextLineMarker(prev) /\ ~IsMarkerLine(line)) => out = line
      /\ C5_TestScenario

\* C5 amended: as C5, with one rule per line, the first that matches in the
\* order username, uuid, accessToken, "userName ", "sessionId ": the line
\* after a marker line gets the substitution of that line's first next-line
\* marker; a line with "userName " and no next-line marker becomes "userName "
\* with the name; a line with "sessionId ", without "userName " and without a
\* next-line marker becomes "sessionId token:" with the token; every other
\* line, the next-line marker lines included, is unchanged.
C5_FirstMatchingRuleApplied ==
    (pc = "rewrite_ret" /\ C5_Input) =>
      /\ rewrite = Ok(Unit)
      /\ Len(minecraft_params) = Len(input_params)
      /\ \A i \in 1..Len(input_params) :
           LET line == input_params[i]
               out == minecraft_params[i]
               prev == IF i > 1 THEN input_params[i - 1] ELSE ""
           IN  out =
                 IF Contains(prev, "param --username") THEN "param " \o playername
                 ELSE IF Contains(prev, "param --uuid") THEN "param " \o uuid
                 ELSE IF Contains(prev, "param --accessToken")
                      THEN "param " \o access_token
                 ELSE IF HasNextLineMarker(line) THEN line
                 ELSE IF Contains(line, "userName ") THEN "userName " \o playername
                 ELSE IF Contains(line, "sessionId ")
                      THEN "sessionId token:" \o access_token
                 ELSE line
      /\ C5_TestScenario

C5_Witness ==
    /\ pc = "rewrite_ret"
    /\ C5_Input
    /\ input_params = TestParams
    /\ minecraft_params = TestExpected
    /\ rewrite = Ok(Unit)

(***************************************************************************)
(* Properties of find_authlib_injector (checked under SpecLocate).         *)
(***************************************************************************)
\* the directory the call scans, when there is one
ScannedDir == IF dirArg.tag = "Some" THEN dirArg ELSE fsys.exe_dir

\* the name passes the prefix and the suffix test
NameFits(name) ==
    /\ Len(name) >= 20
    /\ SubSeq(name, 1, 16) = "authlib-injector"
    /\ SubSeq(name, Len(name) - 3, Len(name)) = ".jar"

\* positions of the entries the enumeration yielded whose name fits
Fitting == {i \in 1..Len(fsys.entries) :
              fsys.entries[i].io /\ NameFits(fsys.entries[i].name)}

\* ... and is valid Unicode
FittingUnicode == {i \in Fitting : fsys.entries[i].unicode}

IsFirstOf(i, S) == i \in S /\ \A j \in S : i <= j

\* C9 as stated: a path is returned exactly when the directory is readable
\* and has an entry whose name starts with "authlib-injector" and ends with
\* ".jar"; it is the path of the first such entry; an entry failing either
\* test is never returned; an unreadable directory gives None.
C9_FirstFittingEntry ==
    (pc = "locate_ret" /\ ScannedDir.tag = "Some") =>
      /\ found.tag = "Some" <=> (fsys.readable /\ Fitting # {})
      /\ found.tag = "Some" =>
           \E i \in Fitting :
             /\ IsFirstOf(i, Fitting)
             /\ found.value = ScannedDir.value \o "/" \o fsys.entries[i].name
      /\ ~fsys.readable => found = None

\* C9 amended: ... has an entry, yielded by the enumeration without error,
\* whose name is valid Unicode, starts with "authlib-injector" and ends with
\* ".jar"; it is the path of the first such entry; an entry whose name is not
\* valid Unicode or fails either test is never returned; an unreadable
\* directory gives None.
C9_FirstFittingUnicodeEntry ==
    (pc = "locate_ret" /\ ScannedDir.tag = "Some") =>
      /\ found.tag = "Some" <=> (fsys.readable /\ FittingUnicode # {})
      /\ found.tag = "Some" =>
           \E i \in FittingUnicode :
             /\ IsFirstOf(i, FittingUnicode)
             /\ found.value = ScannedDir.value \o "/" \o fsys.entries[i].name
      /\ ~fsys.readable => found = None

C9_Witness ==
    /\ pc = "locate_ret"
    /\ found.tag = "Some"
    /\ Cardinality(FittingUnicode) >= 2
    /\ fsys.entries[1].name # fsys.entries[2].name

(***************************************************************************)
(* Properties of main (checked under Spec).                                *)
(***************************************************************************)
\* the calls main made, in order
Calls == [i \in 1..Len(events) |-> events[i].call]
Succeeded(call) == \E i \in 1..Len(events) : events[i] = Event(call, TRUE)
FailedCall(call) == \E i \in 1..Len(events) : events[i] = Event(call, FALSE)
MainCalls == <<"validate_args", "find_authlib_injector", "yggdrasil_login",
               "modify_minecraft_params">>

\* C10: the child is spawned only after validate_args, find_authlib_injector,
\* yggdrasil_login and modify_minecraft_params have succeeded, in that order;
\* when one of them fails main ends with an error and no child; when the
\* artifact is not found no request is sent.
C10_SpawnOnlyAfterAllSucceeded ==
    /\ child.spawned =>
         /\ Calls = MainCalls
         /\ \A i \in 1..Len(events) : events[i].ok
         /\ Len(args) >= 5
         /\ found.tag = "Some"
         /\ login.tag = "Ok"
         /\ rewrite = Ok(Unit)
    /\ \A i \in 1..Len(events) : Calls[i] = MainCalls[i]
    /\ (\/ \E i \in 1..Len(events) : ~events[i].ok
        \/ (pc = "login_ret" /\ login.tag = "Err")
        \/ (pc = "rewrite_ret" /\ rewrite.tag = "Err")) =>
         /\ ~child.spawned
         /\ ~ENABLED MainWriteLine
         /\ (pc = "exit" => result.tag \in {"Err", "Panic"})
    /\ (requests # <<>> \/ login # NoValue) =>
         Succeeded("validate_args") /\ Succeeded("find_authlib_injector")
    /\ rewrite # NoValue => Succeeded("yggdrasil_login")
    /\ FailedCall("find_authlib_injector") => requests = <<>>

C10_Witness ==
    /\ child.spawned
    /\ pc = "exit"
    /\ result = Ok(Unit)
    /\ Len(child.stdin) = 2

(***************************************************************************)
(* Properties of validate_args (checked under Spec).                       *)
(***************************************************************************)
ValidateArgsDone == Len(events) >= 1 /\ events[1].call = "validate_args"

\* C11: validate_args returns InvalidArgument for a vector of fewer than 4
\* entries, CannotRunDirectly for one of exactly 4, and Ok for 5 or more.
C11_ValidateArgsByLength ==
    ValidateArgsDone =>
      /\ Len(args) < 4 =>
           /\ pc = "exit"
           /\ result.tag = "Err"
           /\ result.error.kind = "InvalidArgument"
      /\ Len(args) = 4 =>
           /\ pc = "exit"
           /\ result.tag = "Err"
           /\ result.error.kind = "CannotRunDirectly"
      /\ Len(args) >= 5 => events[1].ok

(***************************************************************************)
(* Further properties of modify_minecraft_params (under SpecRewrite).      *)
(***************************************************************************)
\* the lines with the 0-based slot i set to value
WithLine(params, i, value) ==
    [j \in 1..Len(params) |-> IF j = i + 1 THEN value ELSE params[j]]

\* a loop iteration is taken
Examines == pc = "rewrite" /\ index < Len(minecraft_params)

\* the lines after an iteration that wrote value to the line after the one
\* examined: nothing is written when there is no such line
NextLineWritten(value) ==
    IF index + 1 < Len(minecraft_params)
    THEN minecraft_params' = WithLine(minecraft_params, index + 1, value)
    ELSE minecraft_params' = minecraft_params

\* C12: examining a line performs the action of one rule at most, that of the
\* first test that matches in the order username, uuid, accessToken,
\* "userName ", "sessionId "; a line with "param --uuid" and "userName " has
\* the next line replaced by "param " with the id and is itself unchanged.
C12_FirstMatchingRuleOnly ==
    [][Examines =>
        LET line == minecraft_params[index + 1]
        IN  IF Contains(line, "param --username")
            THEN NextLineWritten("param " \o playername)
            ELSE IF Contains(line, "param --uuid")
            THEN NextLineWritten("param " \o uuid)
            ELSE IF Contains(line, "param --accessToken")
            THEN NextLineWritten("param " \o access_token)
            ELSE IF Contains(line, "userName ")
            THEN minecraft_params' =
                   WithLine(minecraft_params, index, "userName " \o playername)
            ELSE IF Contains(line, "sessionId ")
            THEN minecraft_params' =
                   WithLine(minecraft_params, index, "sessionId token:" \o access_token)
            ELSE minecraft_params' = minecraft_params]_vars

C12_Witness ==
    /\ pc = "rewrite"
    /\ index = 1
    /\ input_params[1] = "param --uuid userName "
    /\ minecraft_params[1] = "param --uuid userName "
    /\ minecraft_params[2] = "param " \o uuid
    /\ input_params[2] # minecraft_params[2]

\* C13: the rewrite is one pass in increasing index order that stops at the
\* first failure and undoes nothing: a step that does not fail moves to the
\* next index, the lines past the one about to be examined are those of the
\* input, and the failing step changes no line, so the substitutions made
\* before it stay and the line it examined keeps its contents.
C13_SinglePassNoRollback ==
    /\ [][Examines =>
            \/ /\ pc' = "rewrite"
               /\ index' = index + 1
            \/ /\ pc' = "rewrite_ret"
               /\ rewrite' = Err("Other")
               /\ index' = index
               /\ minecraft_params' = minecraft_params]_vars
    /\ [](pc = "rewrite" =>
            \A j \in (index + 2)..Len(minecraft_params) :
               minecraft_params[j] = input_params[j])
    /\ [](pc = "rewrite_ret" =>
            /\ rewrite.tag = "Err" => index = Len(minecraft_params) - 1
            /\ rewrite.tag = "Ok" => index = Len(minecraft_params))

C13_Witness ==
    /\ pc = "rewrite_ret"
    /\ rewrite = Err("Other")
    /\ index = 2
    /\ minecraft_params[2] # input_params[2]
    /\ minecraft_params[3] = input_params[3]

\* the value the first next-line marker of a line stands for
MarkerValue(line) ==
    IF Contains(line, "param --username") THEN playername
    ELSE IF Contains(line, "param --uuid") THEN uuid
    ELSE access_token

\* the input's line i is examined as it was given: no line before it holds a
\* next-line marker, so no line up to it is written before its examination
ExaminedAsGiven(i) ==
    \A j \in 1..(i - 1) : ~HasNextLineMarker(input_params[j])

\* what a line is after its own examination
AfterOwnRule(line) ==
    IF HasNextLineMarker(line) THEN line
    ELSE IF Contains(line, "userName ") THEN "userName " \o playername
    ELSE IF Contains(line, "sessionId ") THEN "sessionId token:" \o access_token
    ELSE line

\* C14: the rule for a line is decided on its contents when the pass reaches
\* it. A marker line that follows a marker line is overwritten first: when
\* the text written over it holds no marker, the line after it is only
\* subject to its own rule (["param --username", "param --uuid", "x"] keeps
\* "x"). When the text written holds a next-line marker, the line after it
\* is replaced as that marker says.
C14_RuleDecidedOnCurrentContents ==
    pc = "rewrite_ret" =>
      \A i \in 1..(Len(input_params) - 2) :
        (ExaminedAsGiven(i) /\ HasNextLineMarker(input_params[i])) =>
          LET written == "param " \o MarkerValue(input_params[i])
          IN  /\ minecraft_params[i + 1] = AfterOwnRule(written)
              /\ ~IsMarkerLine(written) =>
                   minecraft_params[i + 2] = AfterOwnRule(input_params[i + 2])
              /\ HasNextLineMarker(written) =>
                   minecraft_params[i + 2] =
                     AfterOwnRule("param " \o MarkerValue(written))

C14_Witness ==
    /\ pc = "rewrite_ret"
    /\ input_params = <<"param --username", "param --uuid", "param AnyHow">>
    /\ playername = "TEST_PLAYERNAME"
    /\ minecraft_params =
         <<"param --username", "param TEST_PLAYERNAME", "param AnyHow">>

\* C18: when a rewrite has succeeded with identity values that form no
\* marker, a second rewrite of its output with the same values succeeds too
\* and changes no line.
C18_Idempotent ==
    (/\ pc = "rewrite_ret"
     /\ rewrite = Ok(Unit)
     /\ \A v \in {access_token, uuid, playername} : ~IsMarkerLine("param " \o v)) =>
       LET again == ModifyMinecraftParams(minecraft_params, 0, access_token,
                                          uuid, playername)
       IN  ~again.failed /\ again.params = minecraft_params

C18_Witness ==
    /\ pc = "rewrite_ret"
    /\ rewrite = Ok(Unit)
    /\ playername = "TEST_PLAYERNAME"
    /\ input_params = <<"param --username", "param --uuid", "userName AnyHow">>
    /\ minecraft_params =
         <<"param --username", "param TEST_PLAYERNAME", "userName TEST_PLAYERNAME">>

(***************************************************************************)
(* Further properties of yggdrasil_login (checked under SpecLogin).        *)
(***************************************************************************)
\* the first sign-in POST was made and did not give a well-formed response:
\* send() failed, the body could not be read, or it does not parse
FirstSignInFailed ==
    /\ Len(responses) >= 2
    /\ ~WellFormedAnswer(responses[2])

FirstSignInSendFailed ==
    /\ Len(responses) >= 2
    /\ responses[2].tag = "SendErr"

\* C15: every failure of the first sign-in attempt, the POST's send() failing
\* as well as a response that does not parse, leads to exactly one re-POST and
\* then to YggdrasilAuthFailed (SignInFailed); after a send() failure of the
\* first POST login does not return before the re-POST and never returns
\* YggdrasilHelloFailed (PrefetchFailed).
C15_AnyFirstFailureRePostsOnce ==
    /\ FirstSignInFailed =>
         /\ pc \in {"login_repost", "login_ret"}
         /\ pc = "login_repost" => Len(requests) = 2
         /\ pc = "login_ret" =>
              /\ OneIdenticalRePost
              /\ LoginFailedWith("YggdrasilAuthFailed")
    /\ FirstSignInSendFailed =>
         /\ pc = "login_ret" => Len(requests) = 3
         /\ ~LoginFailedWith("YggdrasilHelloFailed")
         /\ login.tag # "Ok"

C15_Witness ==
    /\ pc = "login_ret"
    /\ FirstSignInSendFailed
    /\ AnswerRead(responses[3])
    /\ LoginFailedWith("YggdrasilAuthFailed")

\* the cause perform_authentication gives for an answer to the first POST
FirstAttemptCause ==
    IF responses[2].tag = "SendErr" THEN "request"
    ELSE IF ~responses[2].readable THEN "body"
    ELSE "decode"

\* C16: the error of the diagnostic path carries the cause of the first
\* sign-in attempt, never that of the second, and as diagnostic body the body
\* text of the second response when it was read, one fixed placeholder when
\* the re-POST's send() failed and another when the body could not be read;
\* whatever happens to the re-POST the error is YggdrasilAuthFailed.
C16_FirstCauseAndDiagnosticBody ==
    /\ (pc = "login_ret" /\ Len(responses) = 3) =>
         LoginFailedWith("YggdrasilAuthFailed")
    /\ LoginFailedWith("YggdrasilAuthFailed") =>
         /\ Len(responses) = 3
         /\ login.error.source.request = 2
         /\ login.error.source.kind = FirstAttemptCause
         /\ AnswerRead(responses[3]) =>
              login.error.response = responses[3].body
         /\ responses[3].tag = "SendErr" =>
              login.error.response = "<request failed, no response body>"
         /\ (responses[3].tag = "Response" /\ ~responses[3].readable) =>
              login.error.response = "<failed to read response body>"
    /\ "<request failed, no response body>" # "<failed to read response body>"

C16_Witness ==
    /\ LoginFailedWith("YggdrasilAuthFailed")
    /\ responses[2].tag = "Response"
    /\ responses[2].readable
    /\ responses[3].tag = "Response"
    /\ ~responses[3].readable
    /\ login.error.source.kind = "decode"
    /\ login.error.response = "<failed to read response body>"

(***************************************************************************)
(* Properties of main's input and output streams (checked under Spec).     *)
(***************************************************************************)
\* main has launched the child and is past the writes and the wait
ChildServed == pc = "exit" /\ child.spawned

\* C17: main collects the input lines in arrival order up to and including
\* the first line equal to "launch" and reads no line after it, and writes
\* every line of the rewritten sequence, followed by a newline, to the
\* child's standard input in the same order, none dropped, doubled or moved.
C17_LinesCollectedAndWrittenInOrder ==
    ChildServed =>
      /\ input_params = stdin_read
      /\ \A j \in 1..(Len(stdin_read) - 1) : stdin_read[j] # "launch"
      /\ child.stdin =
           [j \in 1..Len(minecraft_params) |-> minecraft_params[j] \o "\n"]

====
